---- MODULE Spec2Model ----
(***************************************************************************)
(* Model of PhoDispl's image_source: the scheduled-load queue, the         *)
(* unscheduled set, the load worker thread, the callers that reach the     *)
(* schedule / unload callbacks under cache_mutex_, and the destructor       *)
(* (specification Spec); and its navigation side: the file list, the       *)
(* Collection cache_ with its cursor, the backup_/change_ record, the      *)
(* filesystem watcher and its events (specification NavSpec); and of       *)
(* file_listing (specification ListingSpec).                               *)
(***************************************************************************)
EXTENDS Naturals, Integers, Sequences, FiniteSets, TLC

\* ---------------------------------------------------------------- bounds
NumImages == 2
MaxPrio == 1
NumPaths == 2
\* two arguments reach every branch of normalize_names and of list_files
MaxArgs == 2
\* populate() is called again while file_list_ has fewer entries than this
MaxList == 2

Images == 1..NumImages
Priorities == 0..MaxPrio

None == "none"
Worker == "worker"
Dtor == "dtor"
Clients == {"ui", "watcher"}

\* paths are ordered as integers; one of them is a directory, the rest are
\* the files that can exist in it
Paths == 1..NumPaths
DirPath == 1
FilePaths == Paths \ {DirPath}
NoImage == 0

\* an empty std::optional<std::filesystem::path>
NoPath == NoImage

\* listing_mode
Modes == {"always", "exists", "supported"}

\* what a file path can be: missing, a file no codec reads, a file one reads
FileKinds == {"absent", "plain", "image"}

VARIABLES
  scheduled_images,    \* vector of <<priority, image>>
  unscheduled_images,  \* vector of image pointers, kept free of duplicates
  state,               \* state[i]: the Image's load state
  cache_mutex,         \* holder of cache_mutex_, or None
  scheduled_images_lock, \* holder of scheduled_images_lock_, or None
  worker_mutex,        \* holder of worker_mutex_, or None
  cpc,                 \* cpc[t]: position of caller thread t
  carg,                \* carg[t]: the image t's unload_image was called with,
                       \* and what t's schedule_image did to the queue
  wpc,                 \* position of the worker thread in work_loop
  wimg,                \* work_loop's img, 0 outside the iteration that took it
  wprio,               \* the priority of the entry it took, until line 173
  stop,                \* the jthread's stop state
  dpc,                 \* position of ~image_source
  lastPrio,            \* history: priority of the latest schedule() per image, {} if none
  erasedPending,       \* history: unschedule(wimg) erased a pending entry of
                       \* the image the worker holds, kept like inflightUnsched
  inflightUnsched,     \* history: unschedule(wimg) ran while load(wimg) ran,
                       \* kept to the end of that iteration of work_loop
  tracking,            \* whether the history requeued is kept: constant along
                       \* a behaviour, TRUE in RequeueSpec only
  requeued,            \* history: the image that was unscheduled and then
                       \* scheduled again while its load() ran, until it is
                       \* unscheduled again or the worker tests its new entry
  startup_files,       \* startup_files_
  watch_fs,            \* global_config().watch_fs
  cache_files,         \* cache_: its sequence of images, each named by its path
  cache_current,       \* cache_: the path of the current image, or NoImage
  content,             \* TRUE iff the current image is not unloaded
  issued,              \* the schedule callbacks of the latest cache_ operation
  backup,              \* backup_: a path or NoImage
  change,              \* change_: an image_change, "none" before the first
  watched,             \* the list filesystem_watcher_ watches, << >> if none
  npc,                 \* npc[t]: position of thread t in an image_source call
  nop,                 \* nop[t]: the call t is in and, for file_event, its
                       \* arguments
  files,               \* populate_cache's local files
  recorded,            \* history: the cursor and the kind of the latest call
                       \* that wrote backup_ and change_, taken when it mutates
  old_list,            \* history: the list unwatch() has dropped, until watch()
  initial_files,       \* file_listing: initial_files_
  callback,            \* file_listing: whether callback_ holds a function
  fl,                  \* global_config(): the listing modes
  fsys,                \* the filesystem: what each file path is
  file_list,           \* file_listing: file_list_, a vector of fs_info
  demotion_candidate,  \* file_listing: demotion_candidate_, a path or NoPath
  list,                \* the vector the latest call returned, if it was populate()
  emitted,             \* history: the callbacks the latest call made
  last_call,           \* history: the latest call on the file_listing
  cleared              \* history: clear() ran and populate() has not run since

vars == <<scheduled_images, unscheduled_images, state, cache_mutex,
          scheduled_images_lock, worker_mutex, cpc, carg, wpc, wimg, wprio,
          stop, dpc, lastPrio, erasedPending, inflightUnsched, requeued,
          tracking, startup_files, watch_fs, cache_files, cache_current, content,
          issued, backup, change, watched, npc, nop, files, recorded,
          old_list, initial_files, callback, fl, fsys, file_list,
          demotion_candidate, list, emitted, last_call, cleared>>

listVars == <<initial_files, callback, fl, fsys, file_list, demotion_candidate,
              list, emitted, last_call, cleared>>

navVars == <<startup_files, watch_fs, cache_files, cache_current, content,
             issued, backup, change, watched, npc, nop, files, recorded,
             old_list>>

NoCall == [op |-> None, path |-> NoImage, action |-> None]
NoRecord == <<NoImage, None>>

\* the navigation side at rest, as Spec keeps it
NavQuiet ==
  /\ startup_files = << >>
  /\ watch_fs = FALSE
  /\ cache_files = << >>
  /\ cache_current = NoImage
  /\ content = FALSE
  /\ issued = << >>
  /\ backup = NoImage
  /\ change = None
  /\ watched = << >>
  /\ npc = [t \in Clients |-> "idle"]
  /\ nop = [t \in Clients |-> NoCall]
  /\ files = << >>
  /\ recorded = NoRecord
  /\ old_list = << >>

\* file_listing at rest, as Spec, RequeueSpec and NavSpec keep it
ListQuiet ==
  /\ initial_files = << >>
  /\ callback = FALSE
  /\ fl = [fl_single_dir |-> "always", fl_single_file |-> "always",
           fl_single_file_parent_dir |-> "always", fl_multi_dir |-> "always",
           fl_multi_file |-> "always"]
  /\ fsys = [f \in FilePaths |-> "absent"]
  /\ file_list = << >>
  /\ demotion_candidate = NoPath
  /\ list = << >>
  /\ emitted = << >>
  /\ last_call = None
  /\ cleared = FALSE

NoArg == [img |-> 0, res |-> None]

\* ------------------------------------------------------- pure helpers
Range(s) == {s[k] : k \in 1..Len(s)}

\* std::ranges::find(scheduled_images_, image, &prio_shared_image::second)
FindScheduled(q, i) == {k \in 1..Len(q) : q[k][2] = i}

IsScheduled(q, i) == FindScheduled(q, i) # {}

PrioOf(q, i) == q[CHOOSE k \in FindScheduled(q, i) : \A m \in FindScheduled(q, i) : k <= m][1]

\* the comparison handed to std::ranges::sort: greater on .first
SortOrder(a, b) == a >= b

\* the arrangements of the elements of q at the positions idx that are ordered
\* by the comparison
RECURSIVE SortedArrangements(_, _)
SortedArrangements(q, idx) ==
  IF idx = {}
    THEN {<< >>}
    ELSE UNION {{<<q[k]>> \o s : s \in SortedArrangements(q, idx \ {k})} :
                  k \in {x \in idx : \A y \in idx : SortOrder(q[x][1], q[y][1])}}

\* std::ranges::sort is not a stable sort: every arrangement of the same
\* elements that is ordered by the comparison is a possible result.
SortResults(q) == SortedArrangements(q, 1..Len(q))

\* schedule_image without the find of line 107: every call adds an entry
ScheduleAlwaysAppends(q, i, p) == Append(q, <<p, i>>)

\* lines 109-115: the vector before the sort
ScheduleUpdate(q, i, p) ==
  IF ~IsScheduled(q, i)
    THEN Append(q, <<p, i>>)
    ELSE [k \in 1..Len(q) |->
            IF k = (CHOOSE n \in FindScheduled(q, i) : \A m \in FindScheduled(q, i) : n <= m)
              THEN <<p, i>> ELSE q[k]]

\* schedule_image without the return of lines 113-114
ScheduleNeverNoop(q, i, p) == FALSE

\* lines 113-114: already queued at this priority
ScheduleIsNoop(q, i, p) == IsScheduled(q, i) /\ PrioOf(q, i) = p

\* schedule_image without lines 121-125
PurgeNothing(u, i) == u

\* lines 121-125
PurgeUnscheduled(u, i) == u \ {i}

\* lines 140-141
EraseScheduled(q, i) ==
  LET k == CHOOSE n \in FindScheduled(q, i) : \A m \in FindScheduled(q, i) : n <= m
  IN  SubSeq(q, 1, k - 1) \o SubSeq(q, k + 1, Len(q))

\* lines 142-145
MarkUnscheduled(u, i) == u \cup {i}

\* next_scheduled_image taking front() instead of back()
PopFront(q) == 1

\* line 159: the entry next_scheduled_image takes
PopIndex(q) == Len(q)

PopRest(q) == SubSeq(q, 1, PopIndex(q) - 1) \o SubSeq(q, PopIndex(q) + 1, Len(q))

\* image::operator bool, as work_loop line 173 uses it
HasContent(s) == s # "unloaded"

\* schedule_image without the inner block: the lock_guard lives to line 130
LockKeptToReturn(t) == t

\* line 126: the block that holds scheduled_images_lock_ ends before
\* worker_mutex_ is taken
LockAfterScheduleBlock(t) == None

\* an inner loop that does not look at the stop state
InnerLoopAlways(stopped) == TRUE

\* line 171: the condition of the inner loop
InnerLoopRuns(stopped) == ~stopped

\* work_loop leaving when the queue is empty, whatever the stop state
OuterBreakAlways(stopped) == TRUE

\* line 193: the only exit of work_loop
OuterBreak(stopped) == stopped

\* image::load(): decode succeeds or fails
LoadResults == {"loaded", "failed"}

\* ------------------------------------------------------------ initial state
Init ==
  /\ scheduled_images = << >>
  /\ unscheduled_images = {}
  /\ state = [i \in Images |-> "unloaded"]
  /\ cache_mutex = None
  /\ scheduled_images_lock = None
  /\ worker_mutex = None
  /\ cpc = [t \in Clients |-> "idle"]
  /\ carg = [t \in Clients |-> NoArg]
  /\ wpc = "check"
  /\ wimg = 0
  /\ wprio = 0
  /\ stop = FALSE
  /\ dpc = "alive"
  /\ lastPrio = [i \in Images |-> {}]
  /\ erasedPending = FALSE
  /\ inflightUnsched = FALSE
  /\ requeued = 0
  /\ tracking = FALSE
  /\ NavQuiet
  /\ ListQuiet

workerVars == <<wpc, wimg, wprio>>
histVars == <<lastPrio, erasedPending, inflightUnsched, requeued, tracking>>
schedVars == <<scheduled_images, unscheduled_images>>

\* std::condition_variable::notify_one on worker_wakeup_
NotifyOne(pc) == IF pc = "waiting" THEN "woken" ELSE pc

\* A caller may start a cache operation while the image_source is alive.
MayEnter(t) == dpc = "alive"

\* ------------------------------------------------- callers (UI, watcher)
\* next_image, previous_image, reload_current, reload_file_list, file_event,
\* the constructor: take cache_mutex_, then call into cache_.
Enter(t) ==
  /\ cpc[t] = "idle"
  /\ MayEnter(t)
  /\ cache_mutex = None
  /\ cache_mutex' = t
  /\ cpc' = [cpc EXCEPT ![t] = "locked"]
  /\ UNCHANGED <<listVars, navVars, schedVars, state, scheduled_images_lock, worker_mutex, carg,
                 workerVars, stop, dpc, histVars>>

Leave(t) ==
  /\ cpc[t] = "locked"
  /\ cache_mutex' = None
  /\ carg' = [carg EXCEPT ![t] = NoArg]
  /\ cpc' = [cpc EXCEPT ![t] = "idle"]
  /\ UNCHANGED <<listVars, navVars, schedVars, state, scheduled_images_lock, worker_mutex,
                 workerVars, stop, dpc, histVars>>

\* cache_ invokes its first callback: schedule_image line 105
ScheduleLock(t) ==
  /\ cpc[t] = "locked"
  /\ scheduled_images_lock = None
  /\ scheduled_images_lock' = t
  /\ carg' = [carg EXCEPT ![t] = NoArg]
  /\ cpc' = [cpc EXCEPT ![t] = "sch_body"]
  /\ UNCHANGED <<listVars, navVars, schedVars, state, cache_mutex, worker_mutex,
                 workerVars, stop, dpc, histVars>>

\* schedule_image lines 107-126, called with image i and priority p
ScheduleBody(t, i, p) ==
  /\ cpc[t] = "sch_body"
  /\ lastPrio' = [lastPrio EXCEPT ![i] = {p}]
  /\ erasedPending' = IF i = wimg THEN FALSE ELSE erasedPending
  /\ inflightUnsched' = IF i = wimg THEN FALSE ELSE inflightUnsched
  /\ requeued' = IF tracking /\ i = wimg /\ wpc = "load" /\ inflightUnsched
                    THEN i ELSE requeued
  /\ UNCHANGED tracking
  /\ IF ScheduleIsNoop(scheduled_images, i, p)
       THEN /\ UNCHANGED schedVars
            /\ carg' = [carg EXCEPT ![t].res = "noop"]
            /\ scheduled_images_lock' = None
            /\ cpc' = [cpc EXCEPT ![t] = "locked"]
       ELSE /\ scheduled_images' \in
                 SortResults(ScheduleUpdate(scheduled_images, i, p))
            /\ unscheduled_images' = PurgeUnscheduled(unscheduled_images, i)
            /\ scheduled_images_lock' = LockAfterScheduleBlock(t)
            /\ cpc' = [cpc EXCEPT ![t] = "ntf_lock"]
            /\ carg' = [carg EXCEPT ![t].res =
                          IF IsScheduled(scheduled_images, i)
                            THEN "moved" ELSE "added"]
  /\ UNCHANGED <<listVars, navVars, state, cache_mutex, worker_mutex, workerVars, stop, dpc>>

\* schedule_image line 128
NotifyLock(t) ==
  /\ cpc[t] = "ntf_lock"
  /\ worker_mutex = None
  /\ worker_mutex' = t
  /\ cpc' = [cpc EXCEPT ![t] = "ntf"]
  /\ carg' = [carg EXCEPT ![t] = NoArg]
  /\ UNCHANGED <<listVars, navVars, schedVars, state, cache_mutex, scheduled_images_lock,
                 workerVars, stop, dpc, histVars>>

\* schedule_image lines 129-130
Notify(t) ==
  /\ cpc[t] = "ntf"
  /\ wpc' = NotifyOne(wpc)
  /\ worker_mutex' = None
  /\ scheduled_images_lock' =
       IF scheduled_images_lock = t THEN None ELSE scheduled_images_lock
  /\ cpc' = [cpc EXCEPT ![t] = "locked"]
  /\ UNCHANGED <<listVars, navVars, schedVars, state, cache_mutex, carg, wimg, wprio, stop, dpc,
                 histVars>>

\* cache_ invokes its second callback, unload_image: unschedule_image line 137
UnscheduleLock(t) ==
  /\ cpc[t] = "locked"
  /\ scheduled_images_lock = None
  /\ scheduled_images_lock' = t
  /\ carg' = [carg EXCEPT ![t] = NoArg]
  /\ cpc' = [cpc EXCEPT ![t] = "uns_body"]
  /\ UNCHANGED <<listVars, navVars, schedVars, state, cache_mutex, worker_mutex,
                 workerVars, stop, dpc, histVars>>

\* unschedule_image lines 139-146, called from unload_image with image i;
\* it returns and unload_image enters image->clear() (line 96)
UnscheduleBody(t, i) ==
  /\ cpc[t] = "uns_body"
  /\ LET found == IsScheduled(scheduled_images, i)
     IN  /\ IF found
              THEN /\ scheduled_images' = EraseScheduled(scheduled_images, i)
                   /\ UNCHANGED unscheduled_images
              ELSE /\ unscheduled_images' = MarkUnscheduled(unscheduled_images, i)
                   /\ UNCHANGED scheduled_images
         /\ lastPrio' = [lastPrio EXCEPT ![i] = {}]
         /\ erasedPending' =
              IF i = wimg /\ wpc = "test" /\ found THEN TRUE ELSE erasedPending
         /\ inflightUnsched' =
              IF i = wimg /\ wpc = "load" THEN TRUE ELSE inflightUnsched
         /\ requeued' = IF i = requeued THEN 0 ELSE requeued
         /\ UNCHANGED tracking
  /\ scheduled_images_lock' = None
  /\ cpc' = [cpc EXCEPT ![t] = "clearing"]
  /\ carg' = [carg EXCEPT ![t] = [img |-> i, res |-> None]]
  /\ UNCHANGED <<listVars, navVars, state, cache_mutex, worker_mutex, workerVars, stop, dpc>>

\* unload_image lines 96-97: image->clear() returns, the image is unloaded
ClearEnd(t) ==
  /\ cpc[t] = "clearing"
  /\ state' = [state EXCEPT ![carg[t].img] = "unloaded"]
  /\ cpc' = [cpc EXCEPT ![t] = "locked"]
  /\ carg' = [carg EXCEPT ![t] = NoArg]
  /\ UNCHANGED <<listVars, navVars, schedVars, cache_mutex, scheduled_images_lock, worker_mutex,
                 workerVars, stop, dpc, histVars>>

\* ------------------------------------------------------ worker thread
\* work_loop line 171
WCheckStop ==
  /\ wpc = "check"
  /\ wpc' = IF InnerLoopRuns(stop) THEN "next_lock" ELSE "outer"
  /\ UNCHANGED <<listVars, navVars, schedVars, state, cache_mutex, scheduled_images_lock,
                 worker_mutex, cpc, carg, wimg, wprio, stop, dpc, histVars>>

\* next_scheduled_image line 153
WNextLock ==
  /\ wpc = "next_lock"
  /\ scheduled_images_lock = None
  /\ scheduled_images_lock' = Worker
  /\ wpc' = "next_body"
  /\ UNCHANGED <<listVars, navVars, schedVars, state, cache_mutex, worker_mutex, cpc, carg, wimg, wprio,
                 stop, dpc, histVars>>

\* next_scheduled_image lines 155-163, and the test of line 172
WNextBody ==
  /\ wpc = "next_body"
  /\ IF scheduled_images = << >>
       THEN /\ wpc' = "outer"
            /\ UNCHANGED <<scheduled_images, wimg, wprio, lastPrio, inflightUnsched>>
       ELSE /\ wimg' = scheduled_images[PopIndex(scheduled_images)][2]
            /\ wprio' = scheduled_images[PopIndex(scheduled_images)][1]
            /\ scheduled_images' = PopRest(scheduled_images)
            /\ lastPrio' = [lastPrio EXCEPT ![wimg'] = {}]
            /\ inflightUnsched' = FALSE
            /\ wpc' = "test"
  /\ scheduled_images_lock' = None
  /\ UNCHANGED <<listVars, navVars, unscheduled_images, state, cache_mutex, worker_mutex, cpc,
                 carg, stop, dpc, erasedPending, requeued, tracking>>

\* work_loop lines 173-176: skip an image that has content (img goes out of
\* scope), else enter load()
WTest ==
  /\ wpc = "test"
  /\ IF HasContent(state[wimg])
       THEN /\ wpc' = "check"
            /\ wimg' = 0
            /\ UNCHANGED state
       ELSE /\ wpc' = "load"
            /\ state' = [state EXCEPT ![wimg] = "loading"]
            /\ UNCHANGED wimg
  /\ wprio' = 0
  /\ erasedPending' = FALSE
  /\ requeued' = IF wimg = requeued THEN 0 ELSE requeued
  /\ UNCHANGED <<listVars, navVars, schedVars, cache_mutex, scheduled_images_lock, worker_mutex,
                 cpc, carg, stop, dpc, lastPrio, inflightUnsched, tracking>>

\* work_loop line 176: load() returns
WLoadEnd ==
  /\ wpc = "load"
  /\ \E r \in LoadResults : state' = [state EXCEPT ![wimg] = r]
  /\ wpc' = "post_lock"
  /\ UNCHANGED <<listVars, navVars, schedVars, cache_mutex, scheduled_images_lock, worker_mutex,
                 cpc, carg, wimg, wprio, stop, dpc, histVars>>

\* work_loop line 179
WPostLock ==
  /\ wpc = "post_lock"
  /\ scheduled_images_lock = None
  /\ scheduled_images_lock' = Worker
  /\ wpc' = "post_body"
  /\ UNCHANGED <<listVars, navVars, schedVars, state, cache_mutex, worker_mutex, cpc, carg, wimg, wprio,
                 stop, dpc, histVars>>

\* work_loop lines 180-187: clear the image if it is marked, drain the set;
\* img goes out of scope
WPostBody ==
  /\ wpc = "post_body"
  /\ state' = IF wimg \in unscheduled_images
                THEN [state EXCEPT ![wimg] = "unloaded"] ELSE state
  /\ unscheduled_images' = {}
  /\ scheduled_images_lock' = None
  /\ wpc' = "check"
  /\ wimg' = 0
  /\ inflightUnsched' = FALSE
  /\ UNCHANGED <<listVars, navVars, scheduled_images, cache_mutex, worker_mutex, cpc, carg, wprio,
                 stop, dpc, lastPrio, erasedPending, requeued, tracking>>

\* work_loop lines 193-195
WOuter ==
  /\ wpc = "outer"
  /\ wpc' = IF OuterBreak(stop) THEN "stopped" ELSE "wait_lock"
  /\ UNCHANGED <<listVars, navVars, schedVars, state, cache_mutex, scheduled_images_lock,
                 worker_mutex, cpc, carg, wimg, wprio, stop, dpc, histVars>>

\* work_loop line 197
WWaitLock ==
  /\ wpc = "wait_lock"
  /\ worker_mutex = None
  /\ worker_mutex' = Worker
  /\ wpc' = "wait_enter"
  /\ UNCHANGED <<listVars, navVars, schedVars, state, cache_mutex, scheduled_images_lock, cpc,
                 carg, wimg, wprio, stop, dpc, histVars>>

\* work_loop line 198: wait() releases the mutex and blocks
WWait ==
  /\ wpc = "wait_enter"
  /\ worker_mutex' = None
  /\ wpc' = "waiting"
  /\ UNCHANGED <<listVars, navVars, schedVars, state, cache_mutex, scheduled_images_lock, cpc,
                 carg, wimg, wprio, stop, dpc, histVars>>

\* std::condition_variable::wait may return without a notification
WSpuriousWakeup ==
  /\ wpc = "waiting"
  /\ wpc' = "woken"
  /\ UNCHANGED <<listVars, navVars, schedVars, state, cache_mutex, scheduled_images_lock,
                 worker_mutex, cpc, carg, wimg, wprio, stop, dpc, histVars>>

\* work_loop lines 198-199: wait() retakes the mutex, the lock's scope ends
WWake ==
  /\ wpc = "woken"
  /\ worker_mutex = None
  /\ wpc' = "check"
  /\ UNCHANGED <<listVars, navVars, schedVars, state, cache_mutex, scheduled_images_lock,
                 worker_mutex, cpc, carg, wimg, wprio, stop, dpc, histVars>>

\* ---------------------------------------------------------- destructor
\* ~image_source line 81: the object is destroyed when no call on it runs
RequestStop ==
  /\ dpc = "alive"
  /\ \A t \in Clients : cpc[t] = "idle"
  /\ stop' = TRUE
  /\ dpc' = "sleep"
  /\ UNCHANGED <<listVars, navVars, schedVars, state, cache_mutex, scheduled_images_lock,
                 worker_mutex, cpc, carg, workerVars, histVars>>

\* ~image_source lines 83-85
DtorLock ==
  /\ dpc = "sleep"
  /\ worker_mutex = None
  /\ worker_mutex' = Dtor
  /\ dpc' = "notify"
  /\ UNCHANGED <<listVars, navVars, schedVars, state, cache_mutex, scheduled_images_lock, cpc,
                 carg, workerVars, stop, histVars>>

\* ~image_source lines 86-87
DtorNotify ==
  /\ dpc = "notify"
  /\ wpc' = NotifyOne(wpc)
  /\ worker_mutex' = None
  /\ dpc' = "join"
  /\ UNCHANGED <<listVars, navVars, schedVars, state, cache_mutex, scheduled_images_lock, cpc,
                 carg, wimg, wprio, stop, histVars>>

\* std::jthread::~jthread joins the worker
DtorJoin ==
  /\ dpc = "join"
  /\ wpc = "stopped"
  /\ dpc' = "joined"
  /\ UNCHANGED <<listVars, navVars, schedVars, state, cache_mutex, scheduled_images_lock,
                 worker_mutex, cpc, carg, workerVars, stop, histVars>>

\* ------------------------------------------------------- specification
ClientStep(t) ==
  \/ Enter(t)
  \/ Leave(t)
  \/ ScheduleLock(t)
  \/ \E i \in Images : \E p \in Priorities : ScheduleBody(t, i, p)
  \/ NotifyLock(t)
  \/ Notify(t)
  \/ UnscheduleLock(t)
  \/ \E i \in Images : UnscheduleBody(t, i)
  \/ ClearEnd(t)

WorkerStep ==
  \/ WCheckStop
  \/ WNextLock
  \/ WNextBody
  \/ WTest
  \/ WLoadEnd
  \/ WPostLock
  \/ WPostBody
  \/ WOuter
  \/ WWaitLock
  \/ WWait
  \/ WSpuriousWakeup
  \/ WWake

DtorStep ==
  \/ RequestStop
  \/ DtorLock
  \/ DtorNotify
  \/ DtorJoin

Next ==
  \/ \E t \in Clients : ClientStep(t)
  \/ WorkerStep
  \/ DtorStep

Spec == Init /\ [][Next]_vars

\* the scheduler, the worker and the destructor after construction
SchedQuiet ==
  /\ scheduled_images = << >>
  /\ unscheduled_images = {}
  /\ state = [i \in Images |-> "unloaded"]
  /\ cache_mutex = None
  /\ scheduled_images_lock = None
  /\ worker_mutex = None
  /\ cpc = [t \in Clients |-> "idle"]
  /\ carg = [t \in Clients |-> NoArg]
  /\ wpc = "check"
  /\ wimg = 0
  /\ wprio = 0
  /\ stop = FALSE
  /\ dpc = "alive"
  /\ lastPrio = [i \in Images |-> {}]
  /\ erasedPending = FALSE
  /\ inflightUnsched = FALSE
  /\ requeued = 0

\* the same program, with the history requeued kept
RequeueInit ==
  /\ SchedQuiet
  /\ tracking = TRUE
  /\ NavQuiet
  /\ ListQuiet

RequeueSpec == RequeueInit /\ [][Next]_vars

\* ------------------------------------------------------------ claims
Queue == scheduled_images

\* the step in which next_scheduled_image returns an image
WorkerDequeues == wpc = "next_body" /\ wpc' = "test"

\* the step in which next_scheduled_image returns empty
WorkerFindsNone == wpc = "next_body" /\ wpc' = "outer"

AllIdle == \A t \in Clients : cpc[t] = "idle"

\* C1 (as stated): next_scheduled_image removes and returns the entry whose
\* priority value is the greatest in the queue.
C1_DequeueGreatest ==
  [][WorkerDequeues =>
       \A k \in 1..Len(Queue) : Queue[k][1] <= PrioOf(Queue, wimg')]_vars

\* C1 (amended): next_scheduled_image removes and returns an entry whose
\* priority value is the least in the queue (the queue is sorted descending and
\* the back is taken), and returns empty iff the queue is empty; so an image
\* last scheduled at p2 is taken before any image queued at a priority > p2.
C1_DequeueLeast ==
  [][(WorkerDequeues =>
        (/\ IsScheduled(Queue, wimg')
         /\ wprio' = PrioOf(Queue, wimg')
         /\ \A k \in 1..Len(Queue) : Queue[k][1] >= wprio'
         /\ \A i \in Images : IsScheduled(Queue, i) =>
                (/\ lastPrio[i] # {}
                 /\ \A a \in lastPrio[i] : \A b \in lastPrio[wimg'] : a >= b)
         /\ Len(Queue') = Len(Queue) - 1
         /\ ~IsScheduled(Queue', wimg')))
     /\ (WorkerFindsNone <=> (wpc = "next_body" /\ wpc' # wpc /\ Queue = << >>))]_vars

\* C1 witness: the worker has taken an entry of priority 0 while an entry of
\* greater priority stays queued.
C1_Witness ==
  /\ wpc = "test"
  /\ wprio = 0
  /\ \E k \in 1..Len(Queue) : Queue[k][1] > 0 /\ Queue[k][2] # wimg

\* C2: the worker never stays blocked in wait() while the queue holds an image:
\* with no stop requested and no schedule() on its way to notify, a blocked
\* worker means an empty queue.
C2_NeverBlockedWithPending ==
  (wpc = "waiting" /\ ~stop /\ AllIdle) => Queue = << >>

\* C3: an image unscheduled while its load was in flight, and not scheduled
\* since, is unloaded when the worker ends that iteration (with no unload_image
\* call still running that would unload it later).
C3_DroppedAfterLoad ==
  [][(/\ wpc = "post_body"
      /\ wpc' = "check"
      /\ inflightUnsched
      /\ \A t \in Clients : cpc[t] \notin {"uns_body", "clearing"})
       => state'[wimg] = "unloaded"]_vars

\* C4: no image is both in the pending queue and in the unscheduled set.
C4_QueueSetDisjoint ==
  \A i \in Images : ~(IsScheduled(Queue, i) /\ i \in unscheduled_images)

\* C4 witness: schedule_image has just queued an image while another image is
\* in the unscheduled set.
C4_Witness ==
  \E t \in Clients :
    /\ cpc[t] = "ntf_lock"
    /\ carg[t].res = "added"
    /\ Queue # << >>
    /\ unscheduled_images # {}

\* C5: once the destructor has requested the stop and sent its notification,
\* the worker leaves its loop: the join never finds it blocked in wait().
C5_JoinFindsWorkerLeaving ==
  dpc = "join" => wpc # "waiting"

\* C6: load() and clear() never run at the same time on one image, and the
\* worker's clear() after a load never overlaps a caller's clear().
C6_NoConcurrentLoadClear ==
  \A t \in Clients :
    cpc[t] = "clearing" =>
      /\ ~(wpc = "load" /\ wimg = carg[t].img)
      /\ ~(wpc = "post_body" /\ wimg = carg[t].img /\ wimg \in unscheduled_images)

\* C7: the worker reaches its terminal state only if a stop was requested.
C7_ExitOnlyOnStop ==
  wpc = "stopped" => stop

\* C7 witness: with no stop requested, after a load that succeeded and a load
\* that failed and an empty queue, the worker is blocked in wait().
C7_Witness ==
  /\ ~stop
  /\ wpc = "waiting"
  /\ \E i \in Images : state[i] = "failed"
  /\ \E i \in Images : state[i] = "loaded"

\* the lock a thread is blocked on, or None
ClientWaitsFor(t) ==
  IF cpc[t] = "locked" /\ scheduled_images_lock # None
    THEN scheduled_images_lock
  ELSE IF cpc[t] = "ntf_lock" /\ worker_mutex # None THEN worker_mutex
  ELSE None

WorkerWaitsFor ==
  IF wpc \in {"next_lock", "post_lock"} /\ scheduled_images_lock # None
    THEN scheduled_images_lock
  ELSE IF wpc \in {"wait_lock", "woken"} /\ worker_mutex # None THEN worker_mutex
  ELSE None

DtorWaitsFor == IF dpc = "sleep" /\ worker_mutex # None THEN worker_mutex ELSE None

\* WaitsFor(h): the thread that holds the lock thread h is blocked on
WaitsFor(h) ==
  IF h \in Clients THEN ClientWaitsFor(h)
  ELSE IF h = Worker THEN WorkerWaitsFor
  ELSE IF h = Dtor THEN DtorWaitsFor
  ELSE None

Threads == Clients \cup {Worker, Dtor}

\* C8: no thread takes cache_mutex_ while it holds scheduled_images_lock_, the
\* worker never holds cache_mutex_, scheduled_images_lock_ and worker_mutex_
\* are never held together, and no thread waits for a lock whose holder is
\* itself blocked (on a lock, or in wait()).
C8_LockOrder ==
  /\ [](/\ cache_mutex # Worker
        /\ \A h \in Threads : ~(scheduled_images_lock = h /\ worker_mutex = h)
        /\ \A h \in Threads :
             (WaitsFor(h) # None) =>
               (WaitsFor(WaitsFor(h)) = None
                  /\ ~(WaitsFor(h) = Worker /\ wpc = "waiting")))
  /\ [][\A t \in Clients :
          (cache_mutex' = t /\ cache_mutex # t) => scheduled_images_lock # t]_vars

\* C8 witness: a caller holds cache_mutex_ and scheduled_images_lock_ and is
\* inside schedule_image while the worker waits for scheduled_images_lock_.
C8_Witness ==
  \E t \in Clients :
    /\ cpc[t] = "sch_body"
    /\ cache_mutex = t
    /\ scheduled_images_lock = t
    /\ WorkerWaitsFor = t

\* C9: the queue holds at most one entry per image, and its priority is the
\* one the latest schedule() for that image passed.
C9_OneEntryLastWriteWins ==
  \A i \in Images :
    /\ Cardinality(FindScheduled(Queue, i)) <= 1
    /\ IsScheduled(Queue, i) => lastPrio[i] = {PrioOf(Queue, i)}

\* C9 witness: schedule_image has just changed the priority of a queued image,
\* with a second image queued.
C9_Witness ==
  \E t \in Clients :
    /\ cpc[t] = "ntf_lock"
    /\ carg[t].res = "moved"
    /\ Len(Queue) = 2

\* C10: unschedule of an image with a pending request erases the request and
\* leaves the unscheduled set alone; the worker takes from the queue only what
\* is queued, and it does not call load() on an image whose pending request
\* was erased since and which was not scheduled again.
C10_ErasedNeverLoaded ==
  [][(\A t \in Clients : \A i \in Images :
        (cpc[t] = "uns_body" /\ cpc'[t] = "clearing" /\ carg'[t].img = i
           /\ IsScheduled(Queue, i))
          => (~IsScheduled(Queue', i) /\ unscheduled_images' = unscheduled_images))
     /\ (WorkerDequeues => IsScheduled(Queue, wimg'))
     /\ ((wpc = "test" /\ wpc' = "load") => ~erasedPending)]_vars

\* C11: schedule(img, p) of an image already queued at priority p changes
\* neither the queue (contents and order) nor the unscheduled set, and the
\* caller returns without taking worker_mutex_ or notifying the worker.
C11_SamePriorityNoop ==
  [][\A t \in Clients : \A i \in Images : \A p \in Priorities :
       (ScheduleBody(t, i, p) /\ IsScheduled(Queue, i) /\ PrioOf(Queue, i) = p)
         => (/\ Queue' = Queue
             /\ unscheduled_images' = unscheduled_images
             /\ cpc'[t] = "locked"
             /\ worker_mutex' = worker_mutex
             /\ wpc' = wpc)]_vars

\* a same-priority schedule has returned with entries queued while the worker
\* is blocked in wait: it stays blocked
C11_Witness ==
  \E t \in Clients :
    /\ cpc[t] = "locked"
    /\ carg[t].res = "noop"
    /\ Queue # << >>
    /\ wpc = "waiting"

\* the worker is inside an iteration of the inner loop of work_loop
InIteration(pc) ==
  pc \in {"next_lock", "next_body", "test", "load", "post_lock", "post_body"}

\* C19 as stated: once stop is requested the worker dequeues no image and
\* begins no load().
C19_NoWorkAfterStop ==
  [][stop => (~WorkerDequeues /\ ~(wpc = "test" /\ wpc' = "load"))]_vars

\* C19: once stop is requested the worker starts no iteration of its loop:
\* only the iteration that had passed the stop check of line 171 before the
\* request still dequeues an image and loads it, and none follows it.
C19_NoIterationAfterStop ==
  [][stop => (/\ (InIteration(wpc') => InIteration(wpc))
              /\ (wpc = "check" /\ wpc' # wpc => wpc' = "outer")
              /\ ~(wpc \in {"test", "load", "post_lock", "post_body"}
                     /\ wpc' \in {"next_lock", "next_body"}))]_vars

\* stop was requested after the worker passed the stop check: it is about to
\* take an image from the queue
C19_Witness ==
  /\ stop
  /\ wpc = "next_body"
  /\ Queue # << >>

\* the position of image i's entry in the vector
PositionOf(q, i) == CHOOSE k \in FindScheduled(q, i) : \A m \in FindScheduled(q, i) : k <= m

\* images a and b are queued at one priority, a in front of b
TiedInOrder(q, a, b) ==
  /\ IsScheduled(q, a)
  /\ IsScheduled(q, b)
  /\ PrioOf(q, a) = PrioOf(q, b)
  /\ PositionOf(q, a) < PositionOf(q, b)

\* C20: entries of equal priority are served in arrival order: a schedule()
\* call leaves the relative order of the entries it does not touch, so the
\* vector holds equal-priority entries in arrival order, and the worker takes
\* the earliest of the entries that share the priority it serves.
C20_TiesInArrivalOrder ==
  [][/\ \A t \in Clients : \A a \in Images : \A b \in Images :
          (/\ cpc[t] = "sch_body"
           /\ cpc'[t] = "ntf_lock"
           /\ TiedInOrder(Queue, a, b)
           /\ IsScheduled(Queue', a) /\ PrioOf(Queue', a) = PrioOf(Queue, a)
           /\ IsScheduled(Queue', b) /\ PrioOf(Queue', b) = PrioOf(Queue, b))
            => TiedInOrder(Queue', a, b)
     /\ (WorkerDequeues
            => \A a \in Images : ~TiedInOrder(Queue, a, wimg'))]_vars

\* C21: an image unscheduled while its load() runs and scheduled again before
\* that load() returns is taken off the unscheduled set by the schedule() and
\* has a queue entry; the worker's check after the load does not clear it; and
\* when the worker takes the new entry it finds content and does not enter
\* load() again.
C21_RequeuedInFlight ==
  [][/\ (requeued' # requeued /\ requeued' # 0)
          => (/\ requeued' = wimg
              /\ requeued' \notin unscheduled_images'
              /\ IsScheduled(Queue', requeued'))
     /\ (wpc = "post_body" /\ wpc' = "check" /\ requeued # 0 /\ wimg = requeued)
          => (/\ state[wimg] \in LoadResults
              /\ state'[wimg] = state[wimg])
     /\ (wpc = "test" /\ wpc' # "test" /\ requeued # 0 /\ wimg = requeued)
          => (/\ wpc' = "check"
              /\ state' = state
              /\ state[wimg] \in LoadResults)]_vars

\* the worker has taken the new entry of such an image, whose first load was
\* kept
C21_Witness ==
  /\ wpc = "test"
  /\ requeued # 0
  /\ wimg = requeued
  /\ state[wimg] = "loaded"

\* ============================================================ navigation
\* std::filesystem::is_directory
IsDirectory(p) == p = DirPath

\* normalize_names, lines 20-34; ".", abs.parent_path() and a directory given
\* by name are the one directory DirPath
normalize_names(fnames) ==
  IF fnames = << >>
    THEN <<DirPath>>
    ELSE IF Len(fnames) = 1 /\ ~IsDirectory(fnames[1])
           THEN Append(fnames, DirPath)
           ELSE fnames

\* a set of paths as a vector, in the order directory_iterator yields them;
\* that order is unspecified, the sort of line 261 makes it irrelevant
RECURSIVE Listing(_)
Listing(d) ==
  IF d = {} THEN << >>
  ELSE LET f == CHOOSE x \in d : \A y \in d : x <= y
       IN  <<f>> \o Listing(d \ {f})

\* list_files lines 247-258: the vector before the sort
RECURSIVE Collected(_, _)
Collected(initializer, d) ==
  IF initializer = << >> THEN << >>
  ELSE LET p == Head(initializer)
       IN  (IF IsDirectory(p) THEN <<p>> \o Listing(d) ELSE <<p>>)
             \o Collected(Tail(initializer), d)

\* std::ranges::sort(files, std::ranges::greater{}): paths are totally ordered,
\* so the result is the one descending arrangement
RECURSIVE SortGreater(_)
SortGreater(v) ==
  IF v = << >> THEN << >>
  ELSE LET k == CHOOSE n \in 1..Len(v) : \A m \in 1..Len(v) : v[n] >= v[m]
       IN  <<v[k]>> \o SortGreater(SubSeq(v, 1, k - 1) \o SubSeq(v, k + 1, Len(v)))

\* list_files without lines 263-264
KeepDuplicates(v) == v

\* std::ranges::unique and erase, lines 263-264: drop each element equal to
\* its predecessor
RECURSIVE Unique(_)
Unique(v) ==
  IF Len(v) <= 1 THEN v
  ELSE IF v[1] = v[2] THEN Unique(Tail(v))
       ELSE <<v[1]>> \o Unique(Tail(v))

\* list_files, lines 242-268
list_files(initializer, d) == Unique(SortGreater(Collected(initializer, d)))

\* ------------------------------------------------- the Collection, cache_
\* the position of path in the sequence
IndexOf(fs, path) == CHOOSE k \in 1..Len(fs) : fs[k] = path

\* set(paths): the sequence becomes the sorted, de-duplicated list
CacheSetFiles(paths) == Unique(SortGreater(paths))

\* a set() that never invalidates the cursor
CacheSetKeepsCurrent(cur, fs) == cur

\* set(paths): the cursor is kept if its path is in the new list
CacheSetCurrent(cur, fs) == IF cur \in Range(fs) THEN cur ELSE NoImage

\* add(path): inserts the path if absent
CacheAddFiles(fs, path) ==
  IF path \in Range(fs) THEN fs ELSE SortGreater(Append(fs, path))

\* remove(path): removes the path
CacheRemoveFiles(fs, path) ==
  IF path \in Range(fs)
    THEN SubSeq(fs, 1, IndexOf(fs, path) - 1)
           \o SubSeq(fs, IndexOf(fs, path) + 1, Len(fs))
    ELSE fs

\* the entries next to path
Neighbors(fs, path) ==
  IF path \in Range(fs)
    THEN {fs[k] : k \in {IndexOf(fs, path) - 1, IndexOf(fs, path) + 1} \cap 1..Len(fs)}
    ELSE {}

\* remove(path): if the path was current, clears the cursor
CacheRemoveCurrent(cur, path) == IF cur = path THEN NoImage ELSE cur

\* next() / previous(): the adjacent entry, d = 1 or -1; at the end of the
\* sequence the cursor wraps or stays (the policy is left open); with no cursor
\* and a non-empty sequence some entry becomes current
CacheMoveCurrents(fs, cur, d) ==
  IF fs = << >> THEN {cur}
  ELSE IF cur = NoImage THEN Range(fs)
  ELSE LET k == IndexOf(fs, cur) + d
       IN  IF k \in 1..Len(fs) THEN {fs[k]}
           ELSE {cur, fs[IF k < 1 THEN Len(fs) ELSE 1]}

\* the callback next() / previous() / invalidate_current() make for the
\* current image
ScheduleCurrent(cur) ==
  IF cur = NoImage THEN << >> ELSE << <<"schedule", cur, "highest">> >>

\* an invalidate_current() that schedules nothing
InvalidateIssuesNothing(cur) == << >>

\* invalidate_current(): one schedule callback for the current image
InvalidateIssued(cur) == ScheduleCurrent(cur)

\* invalidate_current(): the current image goes back to unloaded
InvalidateContent(c) == FALSE


\* ------------------------------------------------ image_source, navigation
\* the scheduler side at rest, as NavSpec keeps it
schedOnly == <<scheduled_images, unscheduled_images, state,
               scheduled_images_lock, worker_mutex, cpc, carg, wpc, wimg, wprio,
               stop, dpc, lastPrio, erasedPending, inflightUnsched, requeued,
               tracking>>

\* the command-line arguments that are tried
ArgLists == UNION {[1..n -> Paths] : n \in 0..MaxArgs}

\* std::filesystem::absolute: the arguments are given in absolute form, which
\* it returns as it is
Absolute(p) == p

\* the constructor has initialised its members and holds cache_mutex_ (line 67)
NavInit ==
  /\ scheduled_images = << >>
  /\ unscheduled_images = {}
  /\ state = [i \in Images |-> "unloaded"]
  /\ scheduled_images_lock = None
  /\ worker_mutex = None
  /\ cpc = [t \in Clients |-> "idle"]
  /\ carg = [t \in Clients |-> NoArg]
  /\ wpc = "check"
  /\ wimg = 0
  /\ wprio = 0
  /\ stop = FALSE
  /\ dpc = "alive"
  /\ lastPrio = [i \in Images |-> {}]
  /\ erasedPending = FALSE
  /\ inflightUnsched = FALSE
  /\ requeued = 0
  /\ tracking = FALSE
  /\ cache_mutex = "ui"
  /\ startup_files \in {normalize_names(a) : a \in ArgLists}
  /\ watch_fs \in BOOLEAN
  /\ cache_files = << >>
  /\ cache_current = NoImage
  /\ content = FALSE
  /\ issued = << >>
  /\ backup = NoImage
  /\ change = None
  /\ watched = << >>
  /\ npc = [t \in Clients |-> IF t = "ui" THEN "ctor_add" ELSE "idle"]
  /\ nop = [t \in Clients |-> NoCall]
  /\ files = << >>
  /\ recorded = NoRecord
  /\ old_list = << >>
  /\ ListQuiet

cacheVars == <<cache_files, cache_current, content, issued>>
recordVars == <<backup, change, recorded>>
watchVars == <<watched, old_list>>

\* the constructor, lines 69-71 (startup_files_ is never empty)
CtorAdd ==
  /\ npc["ui"] = "ctor_add"
  /\ cache_files' = CacheAddFiles(cache_files, Absolute(Head(startup_files)))
  /\ npc' = [npc EXCEPT !["ui"] = "pop_list"]
  /\ UNCHANGED <<listVars, schedOnly, cache_mutex, startup_files, watch_fs,
                 cache_current, content, issued, recordVars, watchVars, nop,
                 files>>

\* populate_cache line 274: the directory holds the files d at this moment
PopulateList(d) ==
  /\ npc["ui"] = "pop_list"
  /\ files' = list_files(startup_files, d)
  /\ npc' = [npc EXCEPT !["ui"] = "pop_set"]
  /\ UNCHANGED <<listVars, schedOnly, cache_mutex, startup_files, watch_fs, cacheVars,
                 recordVars, watchVars, nop>>

\* populate_cache lines 276-280: cache_.set(files), unlock
PopulateSet ==
  /\ npc["ui"] = "pop_set"
  /\ cache_files' = CacheSetFiles(files)
  /\ cache_current' = CacheSetCurrent(cache_current, cache_files')
  /\ content' = (content /\ cache_current' # NoImage)
  /\ cache_mutex' = None
  /\ IF watch_fs
       THEN /\ npc' = [npc EXCEPT !["ui"] = "pop_unwatch"]
            /\ UNCHANGED <<files, nop>>
       ELSE /\ npc' = [npc EXCEPT !["ui"] = "idle"]
            /\ files' = << >>
            /\ nop' = [nop EXCEPT !["ui"] = NoCall]
  /\ UNCHANGED <<listVars, schedOnly, startup_files, watch_fs, issued, recordVars,
                 watchVars>>

\* populate_cache line 281: filesystem_watcher_.unwatch()
PopulateUnwatch ==
  /\ npc["ui"] = "pop_unwatch"
  /\ watched' = << >>
  /\ old_list' = watched
  /\ npc' = [npc EXCEPT !["ui"] = "pop_watch"]
  /\ UNCHANGED <<listVars, schedOnly, cache_mutex, startup_files, watch_fs, cacheVars,
                 recordVars, nop, files>>

\* populate_cache lines 282-284: filesystem_watcher_.watch(files), return
PopulateWatch ==
  /\ npc["ui"] = "pop_watch"
  /\ watched' = files
  /\ old_list' = << >>
  /\ files' = << >>
  /\ npc' = [npc EXCEPT !["ui"] = "idle"]
  /\ nop' = [nop EXCEPT !["ui"] = NoCall]
  /\ UNCHANGED <<listVars, schedOnly, cache_mutex, startup_files, watch_fs, cacheVars,
                 recordVars>>

NavCalls == {"next", "previous", "reload", "reload_list"}

\* the image_change each call stores, lines 210, 221, 232, 294
ChangeOf(op) == IF op = "reload_list" THEN "reload" ELSE op

\* a call that stores no image in backup_
BackupNothing(cur) == NoImage

\* backup_ = cache_.current(), lines 209, 220, 231, 293, 337, 345
BackupValue(cur) == cur

\* next_image, previous_image, reload_current, reload_file_list: the lock of
\* lines 207, 218, 229, 291
NavLock ==
  /\ npc["ui"] = "idle"
  /\ cache_mutex = None
  /\ cache_mutex' = "ui"
  /\ issued' = << >>
  /\ npc' = [npc EXCEPT !["ui"] = "locked"]
  /\ UNCHANGED <<listVars, schedOnly, startup_files, watch_fs, cache_files,
                 cache_current, content, recordVars, watchVars, nop, files>>

\* lines 209-210, 220-221, 231-232, 293-294, in the call op
NavRecord(op) ==
  /\ npc["ui"] = "locked"
  /\ backup' = BackupValue(cache_current)
  /\ change' = ChangeOf(op)
  /\ npc' = [npc EXCEPT !["ui"] = "mutate"]
  /\ nop' = [nop EXCEPT !["ui"] = [op |-> op, path |-> NoImage, action |-> None]]
  /\ UNCHANGED <<listVars, schedOnly, cache_mutex, startup_files, watch_fs, cacheVars,
                 recorded, watchVars, files>>

\* the cache_ call and the return of next_image (d = 1, lines 212-213) and of
\* previous_image (d = -1, lines 223-224)
MoveCurrent(op, d) ==
  /\ npc["ui"] = "mutate"
  /\ nop["ui"].op = op
  /\ cache_current' \in CacheMoveCurrents(cache_files, cache_current, d)
  /\ content' = (content /\ cache_current' = cache_current)
  /\ issued' = ScheduleCurrent(cache_current')
  /\ recorded' = <<cache_current, ChangeOf(op)>>
  /\ cache_mutex' = None
  /\ npc' = [npc EXCEPT !["ui"] = "idle"]
  /\ nop' = [nop EXCEPT !["ui"] = NoCall]
  /\ UNCHANGED <<listVars, schedOnly, startup_files, watch_fs, cache_files, backup,
                 change, watchVars, files>>

next_image == MoveCurrent("next", 1)

previous_image == MoveCurrent("previous", -1)

\* reload_current lines 234-235
reload_current ==
  /\ npc["ui"] = "mutate"
  /\ nop["ui"].op = "reload"
  /\ content' = InvalidateContent(content)
  /\ issued' = InvalidateIssued(cache_current)
  /\ recorded' = <<cache_current, ChangeOf("reload")>>
  /\ cache_mutex' = None
  /\ npc' = [npc EXCEPT !["ui"] = "idle"]
  /\ nop' = [nop EXCEPT !["ui"] = NoCall]
  /\ UNCHANGED <<listVars, schedOnly, startup_files, watch_fs, cache_files,
                 cache_current, backup, change, watchVars, files>>

\* reload_file_list lines 296-297: cache_.invalidate_all(), then
\* populate_cache with the lock
reload_file_list ==
  /\ npc["ui"] = "mutate"
  /\ nop["ui"].op = "reload_list"
  /\ content' = FALSE
  /\ recorded' = <<cache_current, ChangeOf("reload_list")>>
  /\ npc' = [npc EXCEPT !["ui"] = "pop_list"]
  /\ UNCHANGED <<listVars, schedOnly, cache_mutex, startup_files, watch_fs, cache_files,
                 cache_current, issued, backup, change, watchVars, nop, files>>

\* the current image is found loaded: the worker has loaded it (or failed
\* to), now or ahead of the cursor
NavLoaded ==
  /\ cache_current # NoImage
  /\ ~content
  /\ content' = TRUE
  /\ UNCHANGED <<listVars, schedOnly, cache_mutex, startup_files, watch_fs, cache_files,
                 cache_current, issued, recordVars, watchVars, npc, nop, files>>

\* ------------------------------------------------------------- file_event
Actions == {"created", "modified", "removed"}

\* a test that takes every path for the current one
IsCurrentAlways(path, cur) == TRUE

\* is_current, lines 315-321
is_current(path, cur) == cur # NoImage /\ cur = path

\* a handler that takes every event on the current path for a change
EventChangeReload(action, is_cur, old) == IF is_cur THEN "reload" ELSE old

\* what file_event stores in change_, lines 333-346
EventChange(action, is_cur, old) ==
  IF action = "removed"
    THEN (IF is_cur THEN "replace_deleted" ELSE old)
    ELSE (IF is_cur THEN "reload" ELSE old)

\* the watcher calls file_event while it watches something; lines 328-329
EventLock ==
  /\ npc["watcher"] = "idle"
  /\ watched # << >>
  /\ cache_mutex = None
  /\ cache_mutex' = "watcher"
  /\ issued' = << >>
  /\ npc' = [npc EXCEPT !["watcher"] = "ev_body"]
  /\ UNCHANGED <<listVars, schedOnly, startup_files, watch_fs, cache_files,
                 cache_current, content, recordVars, watchVars, nop, files>>

\* file_event lines 331-355, called with path and action
file_event(path, action) ==
  /\ npc["watcher"] = "ev_body"
  /\ LET is_cur == is_current(path, cache_current)
     IN  /\ backup' = IF is_cur THEN BackupValue(cache_current) ELSE backup
         /\ change' = EventChange(action, is_cur, change)
         /\ recorded' = IF is_cur THEN <<cache_current, change'>> ELSE recorded
         /\ IF action = "removed"
              THEN /\ cache_files' = CacheRemoveFiles(cache_files, path)
                   /\ cache_current' = CacheRemoveCurrent(cache_current, path)
                   /\ content' = (content /\ cache_current' # NoImage)
                   /\ UNCHANGED issued
              ELSE IF is_cur
                THEN /\ content' = InvalidateContent(content)
                     /\ issued' = InvalidateIssued(cache_current)
                     /\ UNCHANGED <<cache_files, cache_current>>
                ELSE /\ cache_files' = CacheAddFiles(cache_files, path)
                     /\ UNCHANGED <<cache_current, content, issued>>
  /\ cache_mutex' = None
  /\ npc' = [npc EXCEPT !["watcher"] = "idle"]
  /\ UNCHANGED <<listVars, schedOnly, startup_files, watch_fs, watchVars, nop, files>>

NavNext ==
  \/ CtorAdd
  \/ \E d \in SUBSET FilePaths : PopulateList(d)
  \/ PopulateSet
  \/ PopulateUnwatch
  \/ PopulateWatch
  \/ NavLock
  \/ \E op \in NavCalls : NavRecord(op)
  \/ next_image
  \/ previous_image
  \/ reload_current
  \/ reload_file_list
  \/ NavLoaded
  \/ EventLock
  \/ \E path \in Paths : \E action \in Actions : file_event(path, action)

NavSpec == NavInit /\ [][NavNext]_vars

\* ----------------------------------------------------- claims, navigation
\* the positions in which a thread holds cache_mutex_
HoldsCacheMutex(t) ==
  npc[t] \in {"ctor_add", "pop_list", "pop_set", "locked", "mutate", "ev_body"}

\* C12: a `removed` event for the path of the current image is handled in one
\* critical section of cache_mutex_: it stores backup_ = the image that was
\* current and change_ = replace_deleted and removes the path from the
\* sequence; the cursor is then empty or on a neighbor, never on the removed
\* image.
C12_RemovedCurrent ==
  /\ [](\A t \in Clients : HoldsCacheMutex(t) => cache_mutex = t)
  /\ [][\A path \in Paths :
          (file_event(path, "removed") /\ is_current(path, cache_current))
            => (/\ cache_mutex = "watcher"
                /\ cache_mutex' = None
                /\ backup' = cache_current
                /\ change' = "replace_deleted"
                /\ path \notin Range(cache_files')
                /\ Range(cache_files') = Range(cache_files) \ {path}
                /\ cache_current' # path
                /\ cache_current' \in {NoImage} \cup Neighbors(cache_files, path))]_vars

\* the current image has been removed: the record names it, the sequence
\* does not hold it any more
C12_Witness ==
  /\ cache_mutex = None
  /\ change = "replace_deleted"
  /\ backup # NoImage
  /\ backup \notin Range(cache_files)
  /\ cache_current # backup
  /\ cache_files # << >>

\* the one callback schedule(x, highest priority)
OneSchedule(x) == << <<"schedule", x, "highest">> >>

\* C13: with X current, a `modified` event for X's path and reload_current()
\* each store backup_ = X and change_ = reload and call invalidate_current()
\* once: X is unloaded, exactly one schedule(X, highest) callback is made, and
\* the cursor stays on X.
C13_ReloadCurrent ==
  [][/\ \A path \in Paths :
          (file_event(path, "modified") /\ is_current(path, cache_current))
            => (/\ backup' = cache_current
                /\ change' = "reload"
                /\ ~content'
                /\ issued' = OneSchedule(cache_current)
                /\ cache_current' = cache_current
                /\ cache_files' = cache_files)
     /\ (reload_current /\ cache_current # NoImage)
            => (/\ backup = cache_current
                /\ change = "reload"
                /\ UNCHANGED <<backup, change>>
                /\ ~content'
                /\ issued' = OneSchedule(cache_current)
                /\ cache_current' = cache_current
                /\ cache_files' = cache_files)]_vars

\* a reload of the current image has returned
C13_Witness ==
  /\ cache_mutex = None
  /\ change = "reload"
  /\ backup # NoImage
  /\ cache_current = backup
  /\ issued = OneSchedule(backup)
  /\ ~content

\* C14: a file_event for a path that is not the current image's leaves the
\* cursor, backup_ and change_ as they are: `modified` / `created` only adds
\* the path, which changes nothing if it is listed, and `removed` removes that
\* path and no other.
C14_OtherPathFrame ==
  [][\A path \in Paths : \A action \in Actions :
       (file_event(path, action) /\ path # cache_current)
         => (/\ cache_current' = cache_current
             /\ backup' = backup
             /\ change' = change
             /\ content' = content
             /\ issued' = << >>
             /\ IF action = "removed"
                  THEN /\ Range(cache_files') = Range(cache_files) \ {path}
                       /\ Len(cache_files') = Cardinality(Range(cache_files'))
                  ELSE /\ Range(cache_files') = Range(cache_files) \cup {path}
                       /\ path \in Range(cache_files) => cache_files' = cache_files)]_vars

\* an event has added a path that the watcher was not asked to watch, next to
\* a current image that a navigation call selected
C14_Witness ==
  /\ cache_mutex = None
  /\ \A t \in Clients : npc[t] = "idle"
  /\ watched # << >>
  /\ cache_current # NoImage
  /\ change \in {"next", "previous"}
  /\ \E p \in Range(cache_files) : p \notin Range(watched) /\ p # cache_current

\* a step of the UI thread inside next_image, previous_image, reload_current or
\* reload_file_list that follows the writes of backup_ and change_
MutatesAfterRecord ==
  /\ npc["ui"] \in {"mutate", "pop_list", "pop_set"}
  /\ nop["ui"].op \in NavCalls
  /\ npc'["ui"] # npc["ui"]

\* C15: next_image, previous_image, reload_current and reload_file_list store
\* backup_ = the current image and change_ = next / previous / reload / reload
\* while they hold cache_mutex_ and before they change the Collection, and keep
\* the lock until the change is made: whenever the lock is not theirs, backup_
\* and change_ are those of the latest call that recorded.
C15_RecordBeforeMutation ==
  /\ [](\A t \in Clients : HoldsCacheMutex(t) => cache_mutex = t)
  /\ [](cache_mutex # "ui" => <<backup, change>> = recorded)
  /\ [][/\ \A op \in NavCalls :
            (NavRecord(op) => (/\ backup' = cache_current
                               /\ change' = ChangeOf(op)
                               /\ UNCHANGED <<cache_files, cache_current>>
                               /\ cache_mutex' = "ui"))
       /\ (MutatesAfterRecord
             => (/\ cache_mutex = "ui"
                 /\ backup = cache_current
                 /\ change = ChangeOf(nop["ui"].op)
                 /\ UNCHANGED <<backup, change>>))
       /\ ((cache_current' # cache_current \/ cache_files' # cache_files)
             => (\/ (npc["ui"] \in {"ctor_add", "pop_set"} /\ nop["ui"].op = None)
                 \/ (MutatesAfterRecord /\ npc["ui"] # "pop_list")
                 \/ npc["watcher"] = "ev_body"))]_vars

\* next_image has stored its record, which differs from the one before, and
\* has not moved the cursor yet
C15_Witness ==
  /\ npc["ui"] = "mutate"
  /\ nop["ui"].op = "next"
  /\ cache_mutex = "ui"
  /\ backup = cache_current
  /\ backup # NoImage
  /\ change = "next"
  /\ recorded # <<backup, change>>
  /\ Len(cache_files) > 1

\* C16: populate_cache replaces the watch set in one step: the watcher never
\* watches anything but the list it watched before or the new list, and when
\* populate_cache returns it watches the list that was handed to set().
C16_WatchSetAtomic ==
  /\ [](watch_fs /\ npc["ui"] = "pop_watch" => watched \in {old_list, files})
  /\ [][(watch_fs /\ npc["ui"] = "pop_watch" /\ npc'["ui"] = "idle")
          => watched' = files]_vars

\* strictly descending: sorted by path, no path twice
StrictlyDescending(v) == \A k \in 1..Len(v) : \A m \in 1..Len(v) : k < m => v[k] > v[m]

\* C17: whatever the constructor, reload_file_list and the filesystem events
\* add, remove and set, the Collection holds no path twice and is sorted by
\* path in descending order; so is every list that list_files hands to set().
C17_SortedNoDuplicates == StrictlyDescending(cache_files) /\ StrictlyDescending(files)

\* the constructor's add and set and an add from an event have filled the
\* Collection with every path
C17_Witness ==
  /\ \A t \in Clients : npc[t] = "idle"
  /\ watched # << >>
  /\ Range(cache_files) = Paths
  /\ Range(watched) # Paths
  /\ Len(startup_files) = MaxArgs
  /\ startup_files[1] = startup_files[MaxArgs]

\* C18: the cursor is empty or addresses an entry of the sequence, whatever
\* the calls and events: removing the current path clears the cursor, and
\* set() keeps the cursor if its path is in the new list and clears it if not.
C18_CursorNeverDangling ==
  /\ [](cache_current = NoImage \/ cache_current \in Range(cache_files))
  /\ [][/\ \A path \in Paths :
            (file_event(path, "removed") /\ path = cache_current)
              => cache_current' = NoImage
       /\ (npc["ui"] = "pop_set" /\ npc'["ui"] # "pop_set")
              => (/\ Range(cache_files') = Range(files)
                  /\ cache_current' = IF cache_current \in Range(files)
                                        THEN cache_current ELSE NoImage)]_vars

\* reload_file_list found the current image's path gone from the new list:
\* no image is current
C18_Witness ==
  /\ change = "reload"
  /\ backup # NoImage
  /\ backup \notin Range(cache_files)
  /\ cache_current = NoImage
  /\ cache_files # << >>

\* ========================================================== file_listing
\* src/src/file-listing.cpp.  Every path that is not DirPath is a file of the
\* directory DirPath, as in list_files above.

\* everything but the file_listing object and its filesystem
restVars == <<schedOnly, cache_mutex, navVars>>

\* file_listing::determine_startup_mode, lines 44-57
determine_startup_mode(fnames) ==
  IF fnames = << >> THEN "empty"
  ELSE IF Len(fnames) = 1
         THEN (IF IsDirectory(fnames[1]) THEN "single_dir" ELSE "single_file")
         ELSE "multi"

\* satisfies, lines 64-74: std::filesystem::exists and pixglot::determine_codec
\* are read off the filesystem d
satisfies(path, mode, d) ==
  CASE mode = "always" -> TRUE
    [] mode = "exists" -> d[path] # "absent"
    [] mode = "supported" -> d[path] = "image"

\* std::filesystem::directory_iterator over DirPath, entries that are
\* directories skipped (lines 200-203, 231-234)
DirEntries(d) == Listing({f \in FilePaths : d[f] # "absent"})

\* fs_info, lines 179-182
Item(path, mode) == [path |-> Absolute(path), mode |-> mode]

\* fs_info::satisfied, lines 96-98
satisfied(item, d) == satisfies(item.path, item.mode, d)

\* populate_directory, lines 195-207: the items it hands to populate_item
DirectoryItems(mode, d) ==
  [k \in 1..Len(DirEntries(d)) |-> Item(DirEntries(d)[k], mode)]

\* populate, lines 219-227: the items of startup_mode::multi
RECURSIVE MultiItems(_, _, _)
MultiItems(fnames, cfg, d) ==
  IF fnames = << >> THEN << >>
  ELSE (IF IsDirectory(Head(fnames))
          THEN DirectoryItems(cfg.fl_multi_dir, d)
          ELSE <<Item(Head(fnames), cfg.fl_multi_file)>>)
         \o MultiItems(Tail(fnames), cfg, d)

\* populate, lines 229-238: the items of startup_mode::single_file
SingleFileItems(major, cfg, d) ==
  [k \in 1..Len(DirEntries(d)) |->
     Item(DirEntries(d)[k],
          IF DirEntries(d)[k] = major
            THEN cfg.fl_single_file ELSE cfg.fl_single_file_parent_dir)]

\* populate, lines 214-246: every item populate_item is called with, in order
PopulatedItems(fnames, cfg, d) ==
  CASE determine_startup_mode(fnames) = "single_dir" ->
         DirectoryItems(cfg.fl_single_dir, d)
    [] determine_startup_mode(fnames) = "multi" -> MultiItems(fnames, cfg, d)
    [] determine_startup_mode(fnames) = "single_file" ->
         SingleFileItems(fnames[1], cfg, d)
    [] OTHER -> << >>

\* populate_item, lines 184-186: the paths that reach the returned list
ListedPaths(items, d) ==
  LET Test(item) == satisfied(item, d)
      kept == SelectSeq(items, Test)
  IN  [k \in 1..Len(kept) |-> kept[k].path]

\* std::ranges::find(file_list_, path, &fs_info::path), line 157: the position
\* of the first entry with that path, 0 for end()
FindItem(v, path) ==
  IF \E k \in 1..Len(v) : v[k].path = path
    THEN CHOOSE k \in 1..Len(v) :
           /\ v[k].path = path
           /\ \A m \in 1..Len(v) : v[m].path = path => k <= m
    ELSE 0

\* demote_initial_file emitting whatever the entry was before
DemoteIgnoresBefore(was_listed, is_listed) == ~is_listed

\* line 164
DemoteEmits(was_listed, is_listed) == ~is_listed /\ was_listed

\* invoke_save, lines 16-21: an empty callback is not invoked
invoke_save(cb, event) == IF cb THEN <<event>> ELSE << >>

\* the settings of global_config() that populate and demote_initial_file read
\* when the startup mode is mode: the mode is fixed by initial_files_, and
\* demote_initial_file reads its setting only past a demotion candidate, which
\* only startup_mode::single_file sets (line 240)
ReadSettings(mode) ==
  CASE mode = "single_dir" -> {"fl_single_dir"}
    [] mode = "single_file" -> {"fl_single_file", "fl_single_file_parent_dir"}
    [] mode = "multi" -> {"fl_multi_dir", "fl_multi_file"}
    [] OTHER -> {}

\* global_config(): the five listing modes; a setting that is never read is
\* given one value
Configs(mode) ==
  {c \in [fl_single_dir : Modes, fl_single_file : Modes,
          fl_single_file_parent_dir : Modes, fl_multi_dir : Modes,
          fl_multi_file : Modes] :
     \A f \in DOMAIN c \ ReadSettings(mode) : c[f] = "always"}

\* file_listing::file_listing, lines 28-38
ListingInit ==
  /\ SchedQuiet
  /\ tracking = FALSE
  /\ NavQuiet
  /\ initial_files \in {[k \in 1..Len(a) |-> Absolute(a[k])] : a \in ArgLists}
  /\ callback \in BOOLEAN
  /\ fl \in Configs(determine_startup_mode(initial_files))
  /\ fsys \in [FilePaths -> FileKinds]
  /\ file_list = << >>
  /\ demotion_candidate = NoPath
  /\ list = << >>
  /\ emitted = << >>
  /\ last_call = None
  /\ cleared = FALSE

\* file_listing::populate, lines 211-249, with populate_item (174-189) and
\* populate_directory (195-207); it is called while file_list_ is short
populate ==
  /\ Len(file_list) < MaxList
  /\ LET items == PopulatedItems(initial_files, fl, fsys)
     IN  /\ file_list' = file_list \o items
         /\ list' = ListedPaths(items, fsys)
  /\ demotion_candidate' =
       IF determine_startup_mode(initial_files) = "single_file"
         THEN initial_files[1] ELSE demotion_candidate
  /\ emitted' = << >>
  /\ last_call' = "populate"
  /\ cleared' = FALSE
  /\ UNCHANGED <<restVars, initial_files, callback, fl, fsys>>

\* file_listing::clear, lines 143-146
clear ==
  /\ demotion_candidate' = NoPath
  /\ file_list' = << >>
  /\ list' = << >>
  /\ emitted' = << >>
  /\ last_call' = "clear"
  /\ cleared' = TRUE
  /\ UNCHANGED <<restVars, initial_files, callback, fl, fsys>>

\* file_listing::demote_initial_file, lines 152-168
demote_initial_file ==
  /\ LET it == FindItem(file_list, demotion_candidate)
     IN  IF demotion_candidate = NoPath \/ it = 0
           THEN /\ emitted' = << >>
                /\ UNCHANGED file_list
           ELSE LET was_listed == satisfied(file_list[it], fsys)
                    demoted == [file_list[it] EXCEPT
                                  !.mode = fl.fl_single_file_parent_dir]
                IN  /\ file_list' = [file_list EXCEPT ![it] = demoted]
                    /\ emitted' =
                         IF DemoteEmits(was_listed, satisfied(demoted, fsys))
                           THEN invoke_save(callback, <<demoted.path, "removed">>)
                           ELSE << >>
  /\ list' = << >>
  /\ last_call' = IF last_call \in {"demote", "demote_again"}
                    THEN "demote_again" ELSE "demote"
  /\ UNCHANGED <<restVars, initial_files, callback, fl, fsys, demotion_candidate,
                 cleared>>

\* the filesystem changes under the program: file f becomes kind
FsChange(f, kind) ==
  /\ fsys[f] # kind
  /\ fsys' = [fsys EXCEPT ![f] = kind]
  /\ list' = << >>
  /\ emitted' = << >>
  /\ last_call' = "fs"
  /\ UNCHANGED <<restVars, initial_files, callback, fl, file_list,
                 demotion_candidate, cleared>>

ListingNext ==
  \/ populate
  \/ clear
  \/ demote_initial_file
  \/ \E f \in FilePaths : \E kind \in FileKinds : FsChange(f, kind)

ListingSpec == ListingInit /\ [][ListingNext]_vars

\* --------------------------------------------------- claims, file_listing
\* a demotion candidate is set, its path is in file_list_, and that entry
\* satisfies the mode it has but not the parent-directory mode
DemotionDue ==
  /\ demotion_candidate # NoPath
  /\ \E k \in 1..Len(file_list) : file_list[k].path = demotion_candidate
  /\ LET entry == file_list[FindItem(file_list, demotion_candidate)]
     IN  /\ satisfies(entry.path, entry.mode, fsys)
         /\ ~satisfies(entry.path, fl.fl_single_file_parent_dir, fsys)

\* C22: demote_initial_file() makes the one callback (candidate, removed)
\* exactly when a demotion candidate is set, its path is in the file list and
\* the entry satisfied its listing mode before its mode is switched to the
\* parent-directory mode and does not after; otherwise it makes none (an empty
\* callback_ is never invoked); a call that directly follows another call of
\* it, the filesystem unchanged, makes none; and after clear(), until
\* populate() runs, it changes nothing and makes none.
C22_DemoteEmission ==
  [][demote_initial_file =>
       (/\ emitted' = IF callback /\ DemotionDue
                        THEN <<<<demotion_candidate, "removed">>>> ELSE << >>
        /\ (last_call \in {"demote", "demote_again"} => emitted' = << >>)
        /\ (cleared => (/\ emitted' = << >>
                        /\ file_list' = file_list
                        /\ demotion_candidate' = demotion_candidate)))]_vars

\* a call of demote_initial_file made the callback
C22_Witness ==
  /\ last_call = "demote"
  /\ emitted = <<<<demotion_candidate, "removed">>>>
  /\ demotion_candidate # NoPath

====
